---- MODULE Spec2Model ----
(***************************************************************************)
(* A model of clickhouse_options.go: the DSN parser (ParseDSN and          *)
(* Options.fromDSN), the default resolver (Options.setDefaults) and the    *)
(* String methods of the Protocol and CompressionMethod enumerations.      *)
(*                                                                         *)
(* Strings the code only compares for equality (query keys, the URL        *)
(* scheme, error messages, enumeration names) are TLA+ strings.  Strings   *)
(* the code inspects character by character (query values, host, path,     *)
(* credentials) are sequences of one-character strings.                    *)
(* A Go pointer, map or interface that may be nil is a sequence of length  *)
(* at most one: Nil is <<>> and Ptr(x) is <<x>>.                           *)
(* Go's int is modelled at IntBits bits, two's complement; a               *)
(* time.Duration is counted in milliseconds.                               *)
(***************************************************************************)
EXTENDS Integers, Sequences, FiniteSets, TLC

\* ------------------------------------------------------------------ bounds
\* Width of the modelled Go int (64 in the build; scaled down).
IntBits == 8
\* Most query keys a modelled DSN holds.
MaxParams == 2
\* Most setDefaults calls made on one configuration.
MaxResolve == 2

\* ------------------------------------------------------- Go value helpers
Nil == <<>>
Ptr(x) == <<x>>
Deref(p) == p[1]

RECURSIVE Pow2(_)
Pow2(n) == IF n = 0 THEN 1 ELSE 2 * Pow2(n - 1)

MaxInt == Pow2(IntBits - 1) - 1
MinInt == 0 - Pow2(IntBits - 1)

\* Go's int addition: two's complement, wraps silently.
AddInt(a, b) == ((a + b - MinInt) % Pow2(IntBits)) + MinInt

\* ------------------------------------------------------------- characters
Digits == <<"0", "1", "2", "3", "4", "5", "6", "7", "8", "9">>
UpperCase == <<"A", "B", "C", "D", "E", "F", "G", "H", "I", "J", "K", "L", "M",
               "N", "O", "P", "Q", "R", "S", "T", "U", "V", "W", "X", "Y", "Z">>
LowerCase == <<"a", "b", "c", "d", "e", "f", "g", "h", "i", "j", "k", "l", "m",
               "n", "o", "p", "q", "r", "s", "t", "u", "v", "w", "x", "y", "z">>

IsDigit(c) == \E i \in 1..10 : Digits[i] = c
DigitVal(c) == (CHOOSE i \in 1..10 : Digits[i] = c) - 1

\* strings.ToLower on one character, then on a string.
LowerChar(c) ==
  IF \E i \in 1..26 : UpperCase[i] = c
  THEN LowerCase[CHOOSE i \in 1..26 : UpperCase[i] = c]
  ELSE c
ToLower(s) == [i \in 1..Len(s) |-> LowerChar(s[i])]

\* The value of a run of decimal digits.
RECURSIVE DigitsValue(_)
DigitsValue(s) ==
  IF s = <<>> THEN 0
  ELSE DigitsValue(SubSeq(s, 1, Len(s) - 1)) * 10 + DigitVal(s[Len(s)])

\* The number of leading characters of s that satisfy (digit = wantDigit).
RECURSIVE LeadingRun(_, _)
LeadingRun(s, wantDigit) ==
  IF s = <<>> \/ IsDigit(Head(s)) # wantDigit THEN 0
  ELSE 1 + LeadingRun(Tail(s), wantDigit)

Drop(s, n) == SubSeq(s, n + 1, Len(s))

\* strconv.ParseBool: the twelve accepted spellings, an error otherwise.
ParseBool(s) ==
  IF s \in {<<"1">>, <<"t">>, <<"T">>, <<"T", "R", "U", "E">>,
            <<"t", "r", "u", "e">>, <<"T", "r", "u", "e">>}
  THEN [val |-> TRUE, ok |-> TRUE]
  ELSE IF s \in {<<"0">>, <<"f">>, <<"F">>, <<"F", "A", "L", "S", "E">>,
                 <<"f", "a", "l", "s", "e">>, <<"F", "a", "l", "s", "e">>}
  THEN [val |-> FALSE, ok |-> TRUE]
  ELSE [val |-> FALSE, ok |-> FALSE]

\* strconv.Atoi: an optional sign, at least one digit, nothing else, and a
\* value that fits an int.
Atoi(s) ==
  LET signed == s # <<>> /\ Head(s) \in {"+", "-"}
      body == IF signed THEN Tail(s) ELSE s
      wellFormed == body # <<>> /\ \A i \in 1..Len(body) : IsDigit(body[i])
      mag == IF wellFormed THEN DigitsValue(body) ELSE 0
      n == IF signed /\ Head(s) = "-" THEN 0 - mag ELSE mag
  IN IF wellFormed /\ n >= MinInt /\ n <= MaxInt
     THEN [val |-> n, ok |-> TRUE]
     ELSE [val |-> 0, ok |-> FALSE]

\* The milliseconds in one unit of a duration string; 0 for no known unit.
UnitMillis(u) ==
  CASE u = <<"m", "s">> -> 1
    [] u = <<"s">> -> 1000
    [] u = <<"m">> -> 60000
    [] u = <<"h">> -> 3600000
    [] OTHER -> 0

\* The groups <digits><unit> of a duration string, summed; -1 when malformed.
RECURSIVE DurationGroups(_)
DurationGroups(s) ==
  IF s = <<>> THEN 0
  ELSE LET nd == LeadingRun(s, TRUE)
           rest == Drop(s, nd)
           nu == LeadingRun(rest, FALSE)
           unit == UnitMillis(SubSeq(rest, 1, nu))
           more == DurationGroups(Drop(rest, nu))
       IN IF nd = 0 \/ unit = 0 \/ more < 0 THEN 0 - 1
          ELSE DigitsValue(SubSeq(s, 1, nd)) * unit + more

\* time.ParseDuration: an optional sign, then "0" or one or more groups.
\* Fractions and the units below a millisecond (ns, us) are left out.
ParseDuration(s) ==
  LET signed == s # <<>> /\ Head(s) \in {"+", "-"}
      body == IF signed THEN Tail(s) ELSE s
      mag == IF body = <<"0">> THEN 0
             ELSE IF body = <<>> THEN 0 - 1
             ELSE DurationGroups(body)
  IN IF mag < 0 THEN [val |-> 0, ok |-> FALSE]
     ELSE [val |-> IF signed /\ Head(s) = "-" THEN 0 - mag ELSE mag, ok |-> TRUE]

\* strings.Split(s, sep) for a one-character separator.
RECURSIVE Split(_, _)
Split(s, sep) ==
  IF \A i \in 1..Len(s) : s[i] # sep THEN <<s>>
  ELSE LET k == CHOOSE i \in 1..Len(s) : s[i] = sep /\ \A j \in 1..(i - 1) : s[j] # sep
       IN <<SubSeq(s, 1, k - 1)>> \o Split(Drop(s, k), sep)

\* strings.TrimPrefix(s, prefix) for a one-character prefix.
TrimPrefix(s, c) == IF s # <<>> /\ Head(s) = c THEN Tail(s) ELSE s


\* ----------------------------------------------------- program constants
\* Protocol (iota).
Native == 0
HTTP == 1
\* CompressionMethod: compress.None, compress.LZ4, compress.ZSTD, and 0x99.
CompressionNone == 0
CompressionLZ4 == 1
CompressionZSTD == 2
CompressionGZIP == 153
\* ConnOpenStrategy (iota).
ConnOpenInOrder == 0
ConnOpenRoundRobin == 1
\* time.Second and time.Hour, in milliseconds.
Second == 1000
Hour == 3600000

\* "default", the default database and user name.
DefaultName == <<"d", "e", "f", "a", "u", "l", "t">>

\* Errors: the nil error, url.Parse's error, and the four messages of fromDSN.
ErrNil == "<nil>"
ErrURLParse == "parse"
ErrDialTimeout == "clickhouse [dsn parse]: dial timeout"
ErrReadTimeout == "clickhouse [dsn parse]: http timeout"
ErrHTTPWithTLS == "clickhouse [dsn parse]: http with TLS specify"
ErrHTTPSWithoutTLS == "clickhouse [dsn parse]: https without TLS"

\* A Settings value (an interface{} holding an int or a string).
IntVal(n) == [type |-> "int", int |-> n, str |-> <<>>]
StrVal(s) == [type |-> "string", int |-> 0, str |-> s]

\* &Options{}: every field at its zero value.
ZeroOptions ==
  [Protocol |-> Native,
   TLS |-> Nil,
   Addr |-> <<>>,
   Auth |-> [Database |-> <<>>, Username |-> <<>>, Password |-> <<>>],
   DialContext |-> Nil,
   Debug |-> FALSE,
   Debugf |-> Nil,
   Settings |-> Nil,
   Compression |-> Nil,
   DialTimeout |-> 0,
   MaxOpenConns |-> 0,
   MaxIdleConns |-> 0,
   ConnMaxLifetime |-> 0,
   ConnOpenStrategy |-> ConnOpenInOrder,
   scheme |-> "",
   ReadTimeout |-> 0]

\* ------------------------------------------------------- String methods
CompressionMethodString(c) ==
  CASE c = CompressionNone -> "None"
    [] c = CompressionZSTD -> "zstd"
    [] c = CompressionLZ4 -> "lz4"
    [] c = CompressionGZIP -> "gzip"
    [] OTHER -> ""

ProtocolString(p) ==
  CASE p = Native -> "native"
    [] p = HTTP -> "http"
    [] OTHER -> ""

\* ---------------------------------------------------------------- fromDSN
\* The state of the loop over the query keys: the options being filled, the
\* two local flags, and the error the loop returned with (ErrNil: none yet).

\* case "debug", were a malformed boolean surfaced instead of discarded.
caseDebug_strict(st, raw) ==
  IF ~ParseBool(raw).ok THEN [st EXCEPT !.err = "clickhouse [dsn parse]: debug"]
  ELSE [st EXCEPT !.o.Debug = ParseBool(raw).val]

\* case "debug"
caseDebug(st, raw) == [st EXCEPT !.o.Debug = ParseBool(raw).val]

\* case "compress"
caseCompress(st, raw) ==
  IF ParseBool(raw).val
  THEN [st EXCEPT !.o.Compression = Ptr([Method |-> CompressionLZ4])]
  ELSE st

\* case "dial_timeout"
caseDialTimeout(st, raw) ==
  LET d == ParseDuration(raw)
  IN IF ~d.ok THEN [st EXCEPT !.err = ErrDialTimeout]
     ELSE [st EXCEPT !.o.DialTimeout = d.val]

\* case "read_timeout", were it pasted from "dial_timeout" with the field kept.
caseReadTimeout_writesDial(st, raw) ==
  LET d == ParseDuration(raw)
  IN IF ~d.ok THEN [st EXCEPT !.err = ErrReadTimeout]
     ELSE [st EXCEPT !.o.DialTimeout = d.val]

\* case "read_timeout"
caseReadTimeout(st, raw) ==
  LET d == ParseDuration(raw)
  IN IF ~d.ok THEN [st EXCEPT !.err = ErrReadTimeout]
     ELSE [st EXCEPT !.o.ReadTimeout = d.val]

\* case "secure", were the key's value read as a boolean.
caseSecure_readsValue(st, raw) == [st EXCEPT !.secure = ParseBool(raw).val]

\* case "secure"
caseSecure(st, raw) == [st EXCEPT !.secure = TRUE]

\* case "skip_verify"
caseSkipVerify(st, raw) == [st EXCEPT !.skipVerify = TRUE]

\* case "connection_open_strategy"
caseConnOpenStrategy(st, raw) ==
  CASE raw = <<"i", "n", "_", "o", "r", "d", "e", "r">> ->
         [st EXCEPT !.o.ConnOpenStrategy = ConnOpenInOrder]
    [] raw = <<"r", "o", "u", "n", "d", "_", "r", "o", "b", "i", "n">> ->
         [st EXCEPT !.o.ConnOpenStrategy = ConnOpenRoundRobin]
    [] OTHER -> st

\* The value the default case stores for a key whose query value is raw.
settingValue(raw) ==
  LET p == ToLower(raw)
  IN CASE p = <<"t", "r", "u", "e">> -> IntVal(1)
       [] p = <<"f", "a", "l", "s", "e">> -> IntVal(0)
       [] OTHER -> IF Atoi(p).ok THEN IntVal(Atoi(p).val) ELSE StrVal(p)

\* default: o.Settings[v] = ...
caseDefault(st, v, raw) ==
  [st EXCEPT !.o.Settings = Ptr((v :> settingValue(raw)) @@ Deref(@))]

\* The switch on one query key v, whose first value is raw (params.Get(v)).
Visit(st, v, raw) ==
  CASE v = "debug" -> caseDebug(st, raw)
    [] v = "compress" -> caseCompress(st, raw)
    [] v = "dial_timeout" -> caseDialTimeout(st, raw)
    [] v = "read_timeout" -> caseReadTimeout(st, raw)
    [] v = "secure" -> caseSecure(st, raw)
    [] v = "skip_verify" -> caseSkipVerify(st, raw)
    [] v = "connection_open_strategy" -> caseConnOpenStrategy(st, raw)
    [] OTHER -> caseDefault(st, v, raw)

\* for v := range params, visiting the keys in the given order; a case that
\* fails returns from fromDSN at once.
RECURSIVE rangeParams(_, _, _)
rangeParams(st, params, order) ==
  IF order = <<>> THEN st
  ELSE LET next == Visit(st, Head(order), params[Head(order)])
       IN IF next.err # ErrNil THEN next
          ELSE rangeParams(next, params, Tail(order))

\* if secure { o.TLS = &tls.Config{InsecureSkipVerify: skipVerify} }
resolveTLS(o, secure, skipVerify) ==
  IF secure THEN [o EXCEPT !.TLS = Ptr([InsecureSkipVerify |-> skipVerify])]
  ELSE o

\* The scheme switch, were "https" not checked against secure.
resolveScheme_httpsUnchecked(o, scheme, secure) ==
  LET o1 == [o EXCEPT !.scheme = scheme]
  IN CASE scheme = "http" ->
            IF secure THEN [o |-> o1, err |-> ErrHTTPWithTLS]
            ELSE [o |-> [o1 EXCEPT !.Protocol = HTTP], err |-> ErrNil]
       [] scheme = "https" -> [o |-> [o1 EXCEPT !.Protocol = HTTP], err |-> ErrNil]
       [] OTHER -> [o |-> [o1 EXCEPT !.Protocol = Native], err |-> ErrNil]

\* o.scheme = dsn.Scheme; switch dsn.Scheme { ... }
resolveScheme(o, scheme, secure) ==
  LET o1 == [o EXCEPT !.scheme = scheme]
  IN CASE scheme = "http" ->
            IF secure THEN [o |-> o1, err |-> ErrHTTPWithTLS]
            ELSE [o |-> [o1 EXCEPT !.Protocol = HTTP], err |-> ErrNil]
       [] scheme = "https" ->
            IF ~secure THEN [o |-> o1, err |-> ErrHTTPSWithoutTLS]
            ELSE [o |-> [o1 EXCEPT !.Protocol = HTTP], err |-> ErrNil]
       [] OTHER -> [o |-> [o1 EXCEPT !.Protocol = Native], err |-> ErrNil]

\* The statements of fromDSN before the loop: settings map, credentials,
\* addresses, database.  url is the value url.Parse returned.
beforeLoop(o, url) ==
  LET o1 == IF o.Settings = Nil THEN [o EXCEPT !.Settings = Ptr(<<>>)] ELSE o
      o2 == IF url.User # Nil
            THEN [o1 EXCEPT !.Auth.Username = Deref(url.User).Username,
                            !.Auth.Password = Deref(url.User).Password]
            ELSE o1
      o3 == [o2 EXCEPT !.Addr = @ \o Split(url.Host, ",")]
  IN [o3 EXCEPT !.Auth.Database = TrimPrefix(url.Path, "/")]

\* The statements of fromDSN after the loop: the return of the error a case
\* failed with, else TLS and scheme.  st is the state the loop ended in.
afterLoop(st, scheme) ==
  IF st.err # ErrNil THEN [o |-> st.o, err |-> st.err]
  ELSE resolveScheme(resolveTLS(st.o, st.secure, st.skipVerify), scheme, st.secure)

\* o.fromDSN(in): in is given by what url.Parse and dsn.Query() make of it,
\* order is the order in which the map of query keys is ranged over.
\* The result is the receiver as fromDSN left it, and the error returned.
fromDSN(o, in, order) ==
  IF in.err THEN [o |-> o, err |-> ErrURLParse]
  ELSE afterLoop(rangeParams([o |-> beforeLoop(o, in), secure |-> FALSE,
                              skipVerify |-> FALSE, err |-> ErrNil],
                             in.Query, order),
                 in.Scheme)

\* The returns of ParseDSN, were opt returned beside the error.
returnParseDSN_keepsOpt(r) == [opt |-> Ptr(r.o), err |-> r.err]

\* The two returns of ParseDSN, r being what opt.fromDSN(dsn) left and returned.
returnParseDSN(r) ==
  IF r.err # ErrNil THEN [opt |-> Nil, err |-> r.err]
  ELSE [opt |-> Ptr(r.o), err |-> ErrNil]

\* ParseDSN(dsn): (*Options, error).
ParseDSN(in, order) == returnParseDSN(fromDSN(ZeroOptions, in, order))

\* ------------------------------------------------------------ setDefaults
\* setDefaults, were the default of MaxOpenConns the fixed number 10.
setDefaults_fixedOpen(o) ==
  LET o1 == IF Len(o.Auth.Database) = 0
            THEN [o EXCEPT !.Auth.Database = DefaultName] ELSE o
      o2 == IF Len(o1.Auth.Username) = 0
            THEN [o1 EXCEPT !.Auth.Username = DefaultName] ELSE o1
      o3 == IF o2.DialTimeout = 0 THEN [o2 EXCEPT !.DialTimeout = Second] ELSE o2
      o4 == IF o3.MaxIdleConns <= 0 THEN [o3 EXCEPT !.MaxIdleConns = 5] ELSE o3
      o5 == IF o4.MaxOpenConns <= 0 THEN [o4 EXCEPT !.MaxOpenConns = 10] ELSE o4
  IN IF o5.ConnMaxLifetime = 0 THEN [o5 EXCEPT !.ConnMaxLifetime = Hour] ELSE o5

\* setDefaults, were MaxOpenConns defaulted before MaxIdleConns.
setDefaults_openBeforeIdle(o) ==
  LET o1 == IF Len(o.Auth.Database) = 0
            THEN [o EXCEPT !.Auth.Database = DefaultName] ELSE o
      o2 == IF Len(o1.Auth.Username) = 0
            THEN [o1 EXCEPT !.Auth.Username = DefaultName] ELSE o1
      o3 == IF o2.DialTimeout = 0 THEN [o2 EXCEPT !.DialTimeout = Second] ELSE o2
      o4 == IF o3.MaxOpenConns <= 0
            THEN [o3 EXCEPT !.MaxOpenConns = AddInt(o3.MaxIdleConns, 5)] ELSE o3
      o5 == IF o4.MaxIdleConns <= 0 THEN [o4 EXCEPT !.MaxIdleConns = 5] ELSE o4
  IN IF o5.ConnMaxLifetime = 0 THEN [o5 EXCEPT !.ConnMaxLifetime = Hour] ELSE o5

\* setDefaults, were ReadTimeout given a default as well.
setDefaults_readTimeout(o) ==
  LET o1 == IF Len(o.Auth.Database) = 0
            THEN [o EXCEPT !.Auth.Database = DefaultName] ELSE o
      o2 == IF Len(o1.Auth.Username) = 0
            THEN [o1 EXCEPT !.Auth.Username = DefaultName] ELSE o1
      o3 == IF o2.DialTimeout = 0 THEN [o2 EXCEPT !.DialTimeout = Second] ELSE o2
      o4 == IF o3.MaxIdleConns <= 0 THEN [o3 EXCEPT !.MaxIdleConns = 5] ELSE o3
      o5 == IF o4.MaxOpenConns <= 0
            THEN [o4 EXCEPT !.MaxOpenConns = AddInt(o4.MaxIdleConns, 5)] ELSE o4
      o6 == IF o5.ConnMaxLifetime = 0 THEN [o5 EXCEPT !.ConnMaxLifetime = Hour] ELSE o5
  IN IF o6.ReadTimeout = 0 THEN [o6 EXCEPT !.ReadTimeout = Second] ELSE o6

\* o.setDefaults()
setDefaults(o) ==
  LET o1 == IF Len(o.Auth.Database) = 0
            THEN [o EXCEPT !.Auth.Database = DefaultName] ELSE o
      o2 == IF Len(o1.Auth.Username) = 0
            THEN [o1 EXCEPT !.Auth.Username = DefaultName] ELSE o1
      o3 == IF o2.DialTimeout = 0 THEN [o2 EXCEPT !.DialTimeout = Second] ELSE o2
      o4 == IF o3.MaxIdleConns <= 0 THEN [o3 EXCEPT !.MaxIdleConns = 5] ELSE o3
      o5 == IF o4.MaxOpenConns <= 0
            THEN [o4 EXCEPT !.MaxOpenConns = AddInt(o4.MaxIdleConns, 5)] ELSE o4
  IN IF o5.ConnMaxLifetime = 0 THEN [o5 EXCEPT !.ConnMaxLifetime = Hour] ELSE o5

\* ------------------------------------------------------------------ inputs
Str_true == <<"t", "r", "u", "e">>
Str_false == <<"f", "a", "l", "s", "e">>
Str_tRuE == <<"t", "R", "u", "E">>
Str_Hello == <<"H", "e", "l", "l", "o">>

RecognizedKeys ==
  {"debug", "compress", "dial_timeout", "read_timeout", "secure", "skip_verify",
   "connection_open_strategy"}
SettingKeys == {"max_execution_time", "session_id"}
QueryKeys == RecognizedKeys \cup SettingKeys

\* The query values tried for each key.
ValuesOf(k) ==
  CASE k = "debug" -> {Str_true, Str_tRuE, <<"0">>}
    [] k = "compress" -> {<<"1">>, Str_tRuE, Str_false}
    [] k = "dial_timeout" -> {<<"5", "s">>, <<"0">>, <<"b", "a", "d">>}
    [] k = "read_timeout" -> {<<"2", "0", "0", "m", "s">>, <<"5">>}
    [] k = "secure" -> {Str_false, <<>>}
    [] k = "skip_verify" -> {Str_true}
    [] k = "connection_open_strategy" ->
         {<<"i", "n", "_", "o", "r", "d", "e", "r">>,
          <<"r", "o", "u", "n", "d", "_", "r", "o", "b", "i", "n">>,
          <<"r", "a", "n", "d", "o", "m">>}
    [] k = "max_execution_time" ->
         {<<"T", "R", "U", "E">>, <<"F", "a", "L", "s", "e">>, <<"4", "2">>,
          <<"-", "7">>, <<"9", "9", "9">>, <<"6", "0", "s">>, <<>>}
    [] OTHER -> {Str_Hello, <<"4", "2">>}

\* Every assignment of values to the keys ks.
RECURSIVE Queries(_)
Queries(ks) ==
  IF ks = {} THEN {<<>>}
  ELSE LET k == CHOOSE k \in ks : TRUE
       IN {(k :> v) @@ q : v \in ValuesOf(k), q \in Queries(ks \ {k})}

Schemes == {"http", "https", "clickhouse"}

\* User-info, host and path of the modelled URLs.
Targets ==
  {[User |-> Nil, Host |-> <<"h">>, Path |-> <<>>],
   [User |-> Ptr([Username |-> <<"u">>, Password |-> <<>>]),
    Host |-> <<"h", ",", "g">>, Path |-> <<"/">>],
   [User |-> Ptr([Username |-> <<"u">>, Password |-> <<"p">>]),
    Host |-> <<"h", ":", "9", ",", "g">>, Path |-> <<"/", "d", "b">>]}

\* What url.Parse and Query() make of the DSN strings tried: one string that
\* is no URL, and the URLs with at most MaxParams query keys.
DSNs ==
  {[err |-> TRUE, Scheme |-> "", User |-> Nil, Host |-> <<>>, Path |-> <<>>,
    Query |-> <<>>]}
  \cup
  {[err |-> FALSE, Scheme |-> sch, User |-> t.User, Host |-> t.Host,
    Path |-> t.Path, Query |-> q] :
     sch \in Schemes, t \in Targets,
     q \in UNION {Queries(ks) : ks \in {S \in SUBSET QueryKeys : Cardinality(S) <= MaxParams}}}

\* The orders in which a map with key set S can be ranged over.
Orders(S) ==
  {s \in [1..Cardinality(S) -> S] : \A i, j \in 1..Cardinality(S) : s[i] = s[j] => i = j}

IntSamples == {MinInt, 0 - 1, 0, 1, 5, 20, MaxInt - 5, MaxInt - 4, MaxInt}

\* The fields setDefaults never reads, unset and set.
Frames ==
  {ZeroOptions,
   [ZeroOptions EXCEPT
      !.Protocol = HTTP,
      !.TLS = Ptr([InsecureSkipVerify |-> TRUE]),
      !.Addr = <<<<"h">>, <<"g">>>>,
      !.Auth.Password = <<"p">>,
      !.Debug = TRUE,
      !.Settings = Ptr(("session_id" :> StrVal(<<"x">>))),
      !.Compression = Ptr([Method |-> CompressionZSTD]),
      !.ConnOpenStrategy = ConnOpenRoundRobin,
      !.scheme = "https",
      !.ReadTimeout = 200]}

\* Configurations constructed directly by the caller.
DirectOptions ==
  {[f EXCEPT !.Auth.Database = db, !.Auth.Username = user, !.DialTimeout = dial,
             !.MaxIdleConns = idle, !.MaxOpenConns = open, !.ConnMaxLifetime = life] :
     f \in Frames, db \in {<<>>, <<"d", "b">>}, user \in {<<>>, <<"u">>},
     dial \in {0 - 1, 0, 5000}, idle \in IntSamples, open \in IntSamples,
     life \in {0 - 1, 0, 60000}}

ProtocolSamples == {MinInt, 0 - 1, Native, HTTP, 2, MaxInt}
\* CompressionMethod is a byte.
MethodSamples == 0..255

\* ------------------------------------------------------------------- state
VARIABLES
  dsn,      \* the DSN the caller holds (Nil: the caller builds Options directly)
  results,  \* the (opt, err) pairs the ParseDSN calls on dsn have returned so far
  cfg,      \* the *Options the caller holds (Nil: none)
  prev,     \* cfg as it was before the last setDefaults call (Nil: no call yet)
  applied,  \* the number of setDefaults calls made on cfg
  proto,    \* a Protocol value
  method,   \* a CompressionMethod value
  names     \* the results of the String calls made on proto and method

vars == <<dsn, results, cfg, prev, applied, proto, method, names>>

NoNames == [Protocol |-> Nil, Compression |-> Nil]

\* The caller holds a DSN string.
InitDSN ==
  /\ dsn \in {Ptr(d) : d \in DSNs}
  /\ results = {} /\ cfg = Nil /\ prev = Nil /\ applied = 0
  /\ proto = Native /\ method = CompressionNone /\ names = NoNames

\* The caller has constructed an Options value directly.
InitDirect ==
  /\ dsn = Nil
  /\ cfg \in {Ptr(o) : o \in DirectOptions}
  /\ results = {} /\ prev = Nil /\ applied = 0
  /\ proto = Native /\ method = CompressionNone /\ names = NoNames

Init == InitDSN \/ InitDirect

\* opt, err := ParseDSN(dsn).  The caller may parse its DSN any number of
\* times; every call ranges over the query keys in an order of its own.
ParseDSNCall ==
  /\ dsn # Nil
  /\ \E order \in Orders(DOMAIN Deref(dsn).Query) :
       LET r == ParseDSN(Deref(dsn), order)
       IN results' = results \cup {r} /\ cfg' = r.opt
  /\ prev' = Nil
  /\ applied' = 0
  /\ UNCHANGED <<dsn, proto, method, names>>

\* cfg.setDefaults()
SetDefaultsCall ==
  /\ cfg # Nil
  /\ applied < MaxResolve
  /\ prev' = cfg
  /\ cfg' = Ptr(setDefaults(Deref(cfg)))
  /\ applied' = applied + 1
  /\ UNCHANGED <<dsn, results, proto, method, names>>

Next == ParseDSNCall \/ SetDefaultsCall

Spec == Init /\ [][Next]_vars

\* The enumerations on their own: any Protocol and CompressionMethod value.
InitString ==
  /\ proto \in ProtocolSamples
  /\ method \in MethodSamples
  /\ names = NoNames
  /\ dsn = Nil /\ results = {} /\ cfg = Nil /\ prev = Nil /\ applied = 0

\* proto.String()
ProtocolStringCall ==
  /\ names.Protocol = Nil
  /\ names' = [names EXCEPT !.Protocol = Ptr(ProtocolString(proto))]
  /\ UNCHANGED <<dsn, results, cfg, prev, applied, proto, method>>

\* method.String()
CompressionStringCall ==
  /\ names.Compression = Nil
  /\ names' = [names EXCEPT !.Compression = Ptr(CompressionMethodString(method))]
  /\ UNCHANGED <<dsn, results, cfg, prev, applied, proto, method>>

NextString == ProtocolStringCall \/ CompressionStringCall

SpecString == InitString /\ [][NextString]_vars

\* ============================================================== properties
\* The DSN the caller holds, and what its query holds.
In == Deref(dsn)
Has(k) == k \in DOMAIN In.Query
DurationsValid ==
  \A k \in {"dial_timeout", "read_timeout"} : Has(k) => ParseDuration(In.Query[k]).ok
Succeeded(r) == r.err = ErrNil /\ r.opt # Nil

\* The error kinds of the specification, by error returned.
ErrorKind(e) ==
  CASE e = ErrNil -> "none"
    [] e \in {ErrURLParse, ErrDialTimeout, ErrReadTimeout} -> "MalformedDSN"
    [] e = ErrHTTPWithTLS -> "SchemeTLSConflict"
    [] e = ErrHTTPSWithoutTLS -> "SchemeTLSMissing"
    [] OTHER -> e

\* The reasons for which DSN parsing fails.
MustFail ==
  \/ In.err
  \/ ~DurationsValid
  \/ In.Scheme = "http" /\ Has("secure")
  \/ In.Scheme = "https" /\ ~Has("secure")

\* C1: for a valid URL with valid durations, every ParseDSN call resolves the
\* scheme against the presence of `secure`: http with secure fails with
\* SchemeTLSConflict and without it gives HTTP; https without secure fails
\* with SchemeTLSMissing and with it gives HTTP; any other scheme gives Native.
C1_SchemeResolution ==
  dsn # Nil /\ ~In.err /\ DurationsValid =>
    \A r \in results :
      CASE In.Scheme = "http" ->
             IF Has("secure") THEN ErrorKind(r.err) = "SchemeTLSConflict" /\ r.opt = Nil
             ELSE Succeeded(r) /\ Deref(r.opt).Protocol = HTTP
        [] In.Scheme = "https" ->
             IF ~Has("secure") THEN ErrorKind(r.err) = "SchemeTLSMissing" /\ r.opt = Nil
             ELSE Succeeded(r) /\ Deref(r.opt).Protocol = HTTP
        [] OTHER -> Succeeded(r) /\ Deref(r.opt).Protocol = Native

\* An https DSN with secure and a valid dial_timeout has been parsed to HTTP.
C1_Witness ==
  /\ dsn # Nil /\ ~In.err /\ In.Scheme = "https"
  /\ Has("secure") /\ Has("dial_timeout")
  /\ \E r \in results : Succeeded(r) /\ Deref(r.opt).Protocol = HTTP

\* C2: in every configuration ParseDSN returns, TLS is present exactly when
\* the `secure` key is present (whatever its value), and then verification is
\* disabled exactly when `skip_verify` is present.
C2_TLSIffSecure ==
  dsn # Nil =>
    \A r \in results :
      Succeeded(r) =>
        /\ Deref(r.opt).TLS # Nil <=> Has("secure")
        /\ Deref(r.opt).TLS # Nil =>
             (Deref(Deref(r.opt).TLS).InsecureSkipVerify <=> Has("skip_verify"))

\* A DSN with secure=false has been parsed: TLS is present, verification on.
C2_Witness ==
  /\ dsn # Nil /\ ~In.err /\ Has("secure") /\ In.Query["secure"] = Str_false
  /\ \E r \in results :
       /\ Succeeded(r) /\ Deref(r.opt).TLS # Nil
       /\ ~Deref(Deref(r.opt).TLS).InsecureSkipVerify

\* The value C5 says is stored for a setting whose query value is raw.
C5_Claimed(raw) ==
  CASE ToLower(raw) = Str_true -> IntVal(1)
    [] ToLower(raw) = Str_false -> IntVal(0)
    [] OTHER -> IF Atoi(raw).ok THEN IntVal(Atoi(raw).val) ELSE StrVal(raw)

\* C5: every query key other than the seven recognized ones is stored in the
\* settings under its own name, as 1 or 0 if its value reads true or false in
\* any letter case, else as the integer it parses to, else as the string as
\* given in the DSN, letter case included.
C5_SettingCoercion ==
  dsn # Nil =>
    \A r \in results :
      Succeeded(r) =>
        \A k \in (DOMAIN In.Query) \ RecognizedKeys :
          /\ Deref(r.opt).Settings # Nil
          /\ k \in DOMAIN Deref(Deref(r.opt).Settings)
          /\ Deref(Deref(r.opt).Settings)[k] = C5_Claimed(In.Query[k])

\* C6: ParseDSN fails exactly for the reasons named (no URL, a bad duration,
\* http with secure, https without secure), and then returns an error and no
\* configuration; otherwise it returns a configuration and no error.
C6_AllOrNothing ==
  dsn # Nil =>
    \A r \in results :
      IF MustFail THEN r.err # ErrNil /\ r.opt = Nil
      ELSE r.err = ErrNil /\ r.opt # Nil

\* A call failed on read_timeout after other fields had been filled, and
\* returned no configuration.
C6_Witness ==
  /\ dsn # Nil /\ ~In.err /\ In.Path # <<>>
  /\ \E r \in results : r.err = ErrReadTimeout /\ r.opt = Nil

\* C7: the name of every valid Protocol and CompressionMethod value is its
\* fixed lowercase name, and the name of any other value is the empty string.
C7_EnumNames ==
  /\ names.Protocol # Nil =>
       Deref(names.Protocol) =
         CASE proto = Native -> "native" [] proto = HTTP -> "http" [] OTHER -> ""
  /\ names.Compression # Nil =>
       Deref(names.Compression) =
         CASE method = CompressionNone -> "none"
           [] method = CompressionLZ4 -> "lz4"
           [] method = CompressionZSTD -> "zstd"
           [] method = CompressionGZIP -> "gzip"
           [] OTHER -> ""

\* C9: no ParseDSN call fails for another reason than those named, whatever
\* `debug` and `compress` hold; debug is the parsed boolean, false when
\* malformed or absent; compression is LZ4 exactly when `compress` parses as
\* true, and absent otherwise.
C9_LenientBooleans ==
  dsn # Nil =>
    \A r \in results :
      /\ r.err # ErrNil => MustFail
      /\ Succeeded(r) =>
           /\ Deref(r.opt).Debug =
                (Has("debug") /\ ParseBool(In.Query["debug"]).ok
                              /\ ParseBool(In.Query["debug"]).val)
           /\ Deref(r.opt).Compression =
                IF Has("compress") /\ ParseBool(In.Query["compress"]).ok
                                   /\ ParseBool(In.Query["compress"]).val
                THEN Ptr([Method |-> CompressionLZ4]) ELSE Nil

\* A DSN whose debug and compress values are no boolean text has been parsed.
C9_Witness ==
  /\ dsn # Nil /\ ~In.err /\ Has("debug") /\ Has("compress")
  /\ ~ParseBool(In.Query["debug"]).ok /\ ~ParseBool(In.Query["compress"]).ok
  /\ \E r \in results :
       Succeeded(r) /\ ~Deref(r.opt).Debug /\ Deref(r.opt).Compression = Nil

\* C10: whatever the orders in which the calls ranged over the query keys,
\* any two results for one DSN agree: the same configuration, or failures of
\* the same error kind.
C10_OrderIndependent ==
  \A r1, r2 \in results : ErrorKind(r1.err) = ErrorKind(r2.err) /\ r1.opt = r2.opt

\* Two calls on a DSN with two bad durations failed on different keys.
C10_Witness ==
  /\ dsn # Nil
  /\ \E r1, r2 \in results : r1.err = ErrDialTimeout /\ r2.err = ErrReadTimeout

\* C3: setDefaults gives database and username "default" if empty, dial
\* timeout 1s if zero, max idle 5 if not positive, max open (max idle after
\* its default) + 5 if not positive, lifetime 1h if zero, each unchanged
\* otherwise; an empty configuration gets 5 and 10, max idle 20 gives 25.
\* The sum is Go's int addition.
C3_Defaults ==
  applied >= 1 =>
    LET b == Deref(prev)
        a == Deref(cfg)
    IN /\ a.Auth.Database = IF b.Auth.Database = <<>> THEN DefaultName ELSE b.Auth.Database
       /\ a.Auth.Username = IF b.Auth.Username = <<>> THEN DefaultName ELSE b.Auth.Username
       /\ a.DialTimeout = IF b.DialTimeout = 0 THEN Second ELSE b.DialTimeout
       /\ a.MaxIdleConns = IF b.MaxIdleConns <= 0 THEN 5 ELSE b.MaxIdleConns
       /\ a.MaxOpenConns = IF b.MaxOpenConns <= 0 THEN AddInt(a.MaxIdleConns, 5)
                           ELSE b.MaxOpenConns
       /\ a.ConnMaxLifetime = IF b.ConnMaxLifetime = 0 THEN Hour ELSE b.ConnMaxLifetime
       /\ b = ZeroOptions => a.MaxIdleConns = 5 /\ a.MaxOpenConns = 10
       /\ b.MaxIdleConns = 20 /\ b.MaxOpenConns = 0 => a.MaxOpenConns = 25

\* setDefaults has run on a configuration with max idle 20 and max open unset.
C3_Witness ==
  /\ applied = 1 /\ Deref(prev).MaxIdleConns = 20 /\ Deref(prev).MaxOpenConns = 0
  /\ Deref(cfg).MaxOpenConns = 25

\* C4: a second setDefaults changes nothing: the configuration after it
\* equals, field by field, the configuration before it.
C4_Idempotent == applied >= 2 => cfg = prev

\* setDefaults has run twice on a configuration ParseDSN returned.
C4_Witness == applied = 2 /\ dsn # Nil /\ Deref(cfg).MaxOpenConns = 10

\* C8: setDefaults leaves every field but database, username, dial timeout,
\* max idle, max open and lifetime as it was.
C8_Frame ==
  applied >= 1 =>
    LET b == Deref(prev)
        a == Deref(cfg)
    IN /\ a.Protocol = b.Protocol
       /\ a.Addr = b.Addr
       /\ a.Auth.Password = b.Auth.Password
       /\ a.Compression = b.Compression
       /\ a.TLS = b.TLS
       /\ a.ReadTimeout = b.ReadTimeout
       /\ a.ConnOpenStrategy = b.ConnOpenStrategy
       /\ a.Debug = b.Debug
       /\ a.Settings = b.Settings
       /\ a.scheme = b.scheme
       /\ a.DialContext = b.DialContext
       /\ a.Debugf = b.Debugf

\* setDefaults has filled a configuration whose other fields are all unset.
C8_Witness ==
  /\ applied = 1 /\ dsn = Nil
  /\ Deref(prev).ReadTimeout = 0 /\ Deref(prev).TLS = Nil
  /\ Deref(prev).Compression = Nil /\ Deref(prev).Settings = Nil
  /\ Deref(cfg).DialTimeout = Second
====
